---- MODULE Spec2Model ----
(***************************************************************************)
(* Solar event-time engine of the sunset/twilight programs:                *)
(* SunsetCalculator (getSunset, getSunrise, validateInputs, hourAngle and  *)
(* the orbital-element helpers), the shared solar_utils helpers and the    *)
(* event catalogs of the table renderers.                                  *)
(*                                                                         *)
(* Number representation.  The program computes in IEEE doubles.  Here a   *)
(* double is a fixed-point integer:                                        *)
(*   - degrees, hours and metres are counted in 1/10000 (Unit);            *)
(*   - radians, Julian centuries, sines, cosines and the other             *)
(*     dimensionless factors are counted in 1/1000000 (Micro).             *)
(* Products are formed by FMul, which splits its operands so that no       *)
(* intermediate value leaves the 32-bit integer range.                     *)
(***************************************************************************)
EXTENDS Integers, Sequences, FiniteSets, TLC

Unit == 10 * 1000
Micro == 1000 * 1000

\* A double that is not a number (acos outside [-1,1], 0/0).
NaN == 0 - 2147483647
\* Every double of magnitude 2000 or more, +/-infinity included.
Inf == 2000 * Micro

Abs(x) == IF x < 0 THEN 0 - x ELSE x
Sign(x) == IF x < 0 THEN 0 - 1 ELSE IF x > 0 THEN 1 ELSE 0

\* a * b for a Micro-scaled factor: |a| * |b| / 10^6 rounded toward zero, with
\* the sign of the product (IEEE rounding is symmetric about zero).
FMul(a, b) ==
  IF a = NaN \/ b = NaN THEN NaN
  ELSE LET ah == Abs(a) \div 1000
           al == Abs(a) % 1000
           bh == Abs(b) \div 1000
           bl == Abs(b) % 1000
       IN Sign(a) * Sign(b) *
          (ah * bh + ((ah * bl + al * bh + ((al * bl) \div 1000)) \div 1000))

\* a / b as a Micro-scaled quotient.  A zero divisor gives what IEEE gives.
FDiv(a, b) ==
  IF a = NaN \/ b = NaN THEN NaN
  ELSE IF b = 0 THEN (IF a = 0 THEN NaN ELSE Sign(a) * Inf)
  ELSE LET n == Abs(a)
           d == Abs(b)
           s == Sign(a) * Sign(b)
       IN IF n \div d >= 2000 THEN s * Inf
          ELSE LET q1 == (n \div d) * Micro
                   r1 == n % d
                   q2 == ((r1 * 1000) \div d) * 1000
                   r2 == (r1 * 1000) % d
                   q3 == (r2 * 1000) \div d
               IN s * (q1 + q2 + q3)

\* constants.h
kPi == 3141593
kHalfPi == 1570796
kTwoPi == 6283185
\* pi/180, taking 1/10000 degree to 1/1000000 radian
kDeg2Rad == 1745329
\* 180/pi, taking 1/1000000 radian to 1/10000 degree
kRad2Deg == 572958

\* One Horner step of the sine series: 1 - a2 * p / k
SinStep(a2, p, k) == Micro - (FMul(a2, p) \div k)

\* sin on [0, pi/2]: the Taylor series to x^11, in Horner form, a2 = a * a.
SinSeries(a, a2) ==
  FMul(a, SinStep(a2, SinStep(a2, SinStep(a2, SinStep(a2,
          SinStep(a2, Micro, 110), 72), 42), 20), 6))

Min(a, b) == IF a < b THEN a ELSE b

SinQ(a) == Min(Micro, SinSeries(a, FMul(a, a)))

\* sin(r) for r in [0, 2 pi): the sign of the half turn, and the first-quadrant
\* angle with the same sine
SinTurn(r) ==
  (IF r <= kPi THEN 1 ELSE 0 - 1) *
  SinQ(IF r <= kHalfPi THEN r
       ELSE IF r <= kPi THEN kPi - r
       ELSE IF r <= kPi + kHalfPi THEN r - kPi
       ELSE kTwoPi - r)

\* sin(x), x in radians
Sin(x) ==
  IF x = NaN \/ Abs(x) >= Inf THEN NaN ELSE SinTurn(x % kTwoPi)

\* cos(r) for r in [0, 2 pi)
CosTurn(r) ==
  (IF r <= kHalfPi \/ r > kPi + kHalfPi THEN 1 ELSE 0 - 1) *
  SinQ(IF r <= kHalfPi THEN kHalfPi - r
       ELSE IF r <= kPi THEN r - kHalfPi
       ELSE IF r <= kPi + kHalfPi THEN kPi + kHalfPi - r
       ELSE r - kPi - kHalfPi)

\* cos(x), x in radians
Cos(x) ==
  IF x = NaN \/ Abs(x) >= Inf THEN NaN ELSE CosTurn(Abs(x) % kTwoPi)

RECURSIVE AcosSearch(_, _, _)
\* the angle in [lo, hi] whose cosine is c, by bisection (cos decreases)
AcosSearch(c, lo, hi) ==
  IF hi - lo <= 1 THEN (IF Abs(Cos(lo) - c) <= Abs(Cos(hi) - c) THEN lo ELSE hi)
  ELSE LET mid == (lo + hi) \div 2
       IN IF Cos(mid) >= c THEN AcosSearch(c, mid, hi) ELSE AcosSearch(c, lo, mid)

\* acos(c): NaN outside [-1, 1]
Acos(c) ==
  IF c = NaN \/ c > Micro \/ c < 0 - Micro THEN NaN
  ELSE IF c = Micro THEN 0
  ELSE IF c = 0 - Micro THEN kPi
  ELSE AcosSearch(c, 0, kPi)

\* asin(s): NaN outside [-1, 1]
Asin(s) ==
  IF s = NaN \/ s > Micro \/ s < 0 - Micro THEN NaN ELSE kHalfPi - Acos(s)

RECURSIVE SqrtSearch(_, _, _)
SqrtSearch(n, lo, hi) ==
  IF hi - lo <= 1 THEN lo
  ELSE LET mid == (lo + hi) \div 2
       IN IF mid * mid <= n THEN SqrtSearch(n, mid, hi) ELSE SqrtSearch(n, lo, mid)

\* sqrt(x) for x >= 0 in 1/10000: floor(sqrt(x)) * 100
Sqrt(x) == SqrtSearch(x, 0, 46341) * 100

\* x / n for a whole number n > 0, rounded toward zero
TDiv(x, n) == IF x = NaN THEN NaN ELSE Sign(x) * (Abs(x) \div n)

\* pow(t, 2) .. pow(t, 10) of a Micro-scaled t
RECURSIVE Pow(_, _)
Pow(t, n) == IF n = 0 THEN Micro ELSE FMul(t, Pow(t, n - 1))

\* while (x > 360) x -= 360; while (x < 0) x += 360;   (degrees)
\* The first loop leaves exactly 360 alone, and brings a multiple of 360 to it.
Wrap360(x) ==
  IF x > 360 * Unit
    THEN (IF x % (360 * Unit) = 0 THEN 360 * Unit ELSE x % (360 * Unit))
  ELSE IF x < 0 THEN x % (360 * Unit)
  ELSE x

\* while (x >= 24) x -= 24; while (x < 0) x += 24;   (hours)
Wrap24(x) ==
  IF x = NaN THEN NaN
  ELSE IF x >= 24 * Unit \/ x < 0 THEN x % (24 * Unit)
  ELSE x

\* The same two loops on the double that rounds to grid value x, ulp naming
\* the side it lies on.  A double just below zero ends the first loop
\* unchanged, and the second adds 24.0 to it: the sum rounds to 24.0, which
\* no loop takes back.
Wrap24Rounded(x, ulp) ==
  IF x # NaN /\ x <= 0 /\ x % (24 * Unit) = 0 /\ ulp < 0 THEN 24 * Unit
  ELSE Wrap24(x)

(***************************************************************************)
(* Julian date and time epoch                                              *)
(***************************************************************************)
kJ2000Epoch == 2451545

\* The Gregorian calendar
IsLeapYear(year) ==
  year % 4 = 0 /\ (year % 100 # 0 \/ year % 400 = 0)

DaysInMonth(year, month) ==
  IF month = 2 THEN (IF IsLeapYear(year) THEN 29 ELSE 28)
  ELSE IF month \in {4, 6, 9, 11} THEN 30
  ELSE 31

IsRealDate(year, month, day) ==
  /\ month >= 1 /\ month <= 12
  /\ day >= 1 /\ day <= DaysInMonth(year, month)

\* Variant: the day count of the Julian calendar, without the century terms
getJulianDateOfJulianCalendar(year, month, day) ==
  LET a == (14 - month) \div 12
      y == year + 4800 - a
      m == month + 12 * a - 3
  IN day + ((153 * m + 2) \div 5) + 365 * y + (y \div 4) - 32083

\* whole days; the C++ int divisions have non-negative operands here
getJulianDate(year, month, day) ==
  LET a == (14 - month) \div 12
      y == year + 4800 - a
      m == month + 12 * a - 3
  IN day + ((153 * m + 2) \div 5) + 365 * y + (y \div 4) - (y \div 100)
         + (y \div 400) - 32045

getJ2000(jd) == jd - kJ2000Epoch

\* Julian centuries since J2000, Micro-scaled
getJulianCentury(J2000) == FDiv(J2000, 36525)

(***************************************************************************)
(* Orbital elements.  Degrees are Unit-scaled, t is Micro-scaled.          *)
(***************************************************************************)
Algorithms == {"NOAA", "USNO", "LASKAR"}

\* L0 before the loops
L0(t, algo) ==
  IF algo = "USNO" THEN
    2804600 + FMul(t, 360007710)
  ELSE IF algo = "LASKAR" THEN
    2804665 + FMul(t, 360007698) + FMul(Pow(t, 2), 303)
    + TDiv(Pow(t, 3), 4993100) - TDiv(Pow(t, 4), 1530000)
    - TDiv(Pow(t, 5), 200000000)
  ELSE
    2804665 + FMul(t, 360007698 + FMul(t, 3))

meanLongitude(t, algo) == Wrap360(L0(t, algo))

\* meanLongitude of a double t between two values of the Micro grid: one
\* step of t is some 360 steps of L0, and within counts the steps of L0 that
\* the double lies above the grid value
meanLongitudeWithin(t, algo, within) == Wrap360(L0(t, algo) + within)

meanAnomaly(t, algo) ==
  IF algo = "USNO" THEN 3575280 + FMul(t, 359990500)
  ELSE IF algo = "LASKAR" THEN
    3575277 + FMul(t, 359990503) - FMul(Pow(t, 2), 2) + TDiv(Pow(t, 3), 30000000)
  ELSE 3575291 + FMul(t, 359990503 - FMul(t, 2))

\* M in degrees is converted to radians inside; the result is in degrees
equationOfCenter(t, M, algo) ==
  LET Mr == FMul(M, kDeg2Rad)
  IN IF algo = "USNO" THEN
       FMul(19150, Sin(Mr)) + FMul(200, Sin(2 * Mr))
     ELSE
       FMul(19146 - FMul(t, 48) - FMul(Pow(t, 2), 0), Sin(Mr))
       + FMul(200 - FMul(t, 1), Sin(2 * Mr))
       + FMul(3, Sin(3 * Mr))

LongitudeAscendingNodeFormulations == {"NOAA_LINEAR", "REDA_ANDREAS_SPA"}

\* returned in radians (Micro-scaled)
longitudeAscendingNode(t, form) ==
  IF form = "NOAA_LINEAR" THEN
    FMul(1250400 - FMul(t, 19341360), kDeg2Rad)
  ELSE
    FMul(1250445 - FMul(t, 19341363) + FMul(Pow(t, 2), 21)
         + TDiv(Pow(t, 3), 45000000), kDeg2Rad)

\* Omega after Omega *= kDeg2Rad, the number whose sine is taken
nutationOmega(Omega) == TDiv(FMul(Omega, kDeg2Rad), 100)

\* 2 * X1, the number whose sine is taken: X1 as it was passed
nutationTwiceX1(X1) == 2 * X1 * 100

\* Omega *= kDeg2Rad multiplies the number it is given, already radians, by
\* pi/180 once more; sin(2 * X1) takes the sine of the number X1, which the
\* callers pass in degrees.  psi is summed in 1/1000000 degree.
nutationInLongitude(Omega, JCE, X1) ==
  LET Om == nutationOmega(Omega)
      psi == 0 - FMul(4778, Sin(Om))
             - FMul(367, Sin(nutationTwiceX1(X1)))
             - FMul(64, Sin(2 * Om))
             + FMul(58, Sin(2 * Om))
  IN TDiv(psi, 100)

\* dimensionless, Micro-scaled
eccentricity(t) == 16709 - FMul(t, 42 + FMul(t, 0))

\* Earth-sun distance in AU, Micro-scaled
radiusVector(e, nu) ==
  FDiv(FMul(1000001, Micro - FMul(e, e)),
       Micro + FMul(e, Cos(FMul(nu, kDeg2Rad))))

\* Variant: the NOAA cubic in T itself, U not divided by 100
obliquityOfEclipticInCenturies(T, algo) ==
  TDiv(234393 * 3600 - FMul(T, 46815000) - FMul(Pow(T, 2), 59000)
       + FMul(Pow(T, 3), 18130000), 3600)

obliquityOfEcliptic(T, algo) ==
  LET epsilon0 == 234393
      U == TDiv(T, 100)
      t0 == epsilon0 * 3600
  IN IF algo = "USNO" THEN TDiv(t0 - FMul(U, 46809300), 3600)
     ELSE IF algo = "LASKAR" THEN
       TDiv(t0 - FMul(Pow(U, 2), 15500) + FMul(Pow(U, 3), 19992500)
            - FMul(Pow(U, 4), 513800) - FMul(Pow(U, 5), 2496700)
            - FMul(Pow(U, 6), 390500) + FMul(Pow(U, 7), 71200)
            + FMul(Pow(U, 8), 278700) + FMul(Pow(U, 9), 57900)
            + FMul(Pow(U, 10), 24500), 3600)
     ELSE
       TDiv(t0 - FMul(U, 46815000) - FMul(Pow(U, 2), 59000)
            + FMul(Pow(U, 3), 18130000), 3600)

(***************************************************************************)
(* Zenith and hour angle                                                   *)
(***************************************************************************)
\* Variant: the altitude correction applied to the magnitude of the altitude
getZenithOfMagnitude(e, nu, altitude_meters) ==
  90 * Unit
  - ((0 - 8330) - TDiv(FMul(2076000, Sqrt(Abs(altitude_meters))), 60))

\* Variant: the altitude correction raising the horizon
getZenithRaisingHorizon(e, nu, altitude_meters) ==
  IF altitude_meters > 0
    THEN 90 * Unit
         - ((0 - 8330) + TDiv(FMul(2076000, Sqrt(altitude_meters)), 60))
    ELSE 90 * Unit - (0 - 8330)

\* e and nu are not used; altitude_meters in 1/10000 m
getZenith(e, nu, altitude_meters) ==
  LET apparentSunsetElevation == 0 - 8330
      altitudeCorrection == 0 - TDiv(FMul(2076000, Sqrt(altitude_meters)), 60)
  IN IF altitude_meters > 0
       THEN 90 * Unit - (apparentSunsetElevation + altitudeCorrection)
       ELSE 90 * Unit - apparentSunsetElevation

\* The doubles a quotient can take when numerator and divisor both vanish on
\* the fixed-point grid: below -1, within [-1, 1], above 1.
Residues == {0 - Inf, 0 - Micro, 0, Micro, Inf}

\* the sign of a cosine; a double cosine is never exactly zero, and at
\* +/-90 degrees it is a small positive number
CosSign(c) == IF c < 0 THEN 0 - 1 ELSE 1

\* num / (cosPhi * cosDelta).  Where the divisor is below the grid the
\* quotient is infinite with the sign of the numerator; where the numerator
\* is below the grid too, it is the double that ulp names.
Quotient(num, cosPhi, cosDelta, ulp) ==
  IF FMul(cosPhi, cosDelta) # 0 THEN FDiv(num, FMul(cosPhi, cosDelta))
  ELSE IF num # 0 THEN Sign(num) * CosSign(cosPhi) * CosSign(cosDelta) * Inf
  ELSE ulp

\* (cos(h0) - sin(phi) * sin(delta)) / (cos(phi) * cos(delta)), radians in
cosHourAngle(h0, phi, delta, ulp) ==
  Quotient(Cos(h0) - FMul(Sin(phi), Sin(delta)), Cos(phi), Cos(delta), ulp)

\* Variant: acos taken without the two range checks
hourAngleUnchecked(cos_H0) == FMul(Acos(cos_H0), kRad2Deg)

\* the last lines of SunsetCalculator::hourAngle
hourAngleOf(cos_H0) ==
  IF cos_H0 > Micro THEN 0
  ELSE IF cos_H0 < 0 - Micro THEN 180 * Unit
  ELSE FMul(Acos(cos_H0), kRad2Deg)

\* SunsetCalculator::hourAngle: degrees in, degrees out
hourAngle(h0, phi, delta, ulp) ==
  hourAngleOf(cosHourAngle(FMul(h0, kDeg2Rad), FMul(phi, kDeg2Rad),
                           FMul(delta, kDeg2Rad), ulp))

\* Variant: the bounds of hourAngle returned instead of -1.0
calcHourAngleClamped(cosH) ==
  IF cosH > Micro THEN 0
  ELSE IF cosH < 0 - Micro THEN 180 * Unit
  ELSE FMul(Acos(cosH), kRad2Deg)

\* the last lines of solar_utils::calcHourAngle
calcHourAngleOf(cosH) ==
  IF cosH < 0 - Micro \/ cosH > Micro THEN 0 - Unit
  ELSE FMul(Acos(cosH), kRad2Deg)

\* solar_utils::calcHourAngle: degrees in, degrees out, -1.0 when the event
\* does not occur
calcHourAngle(zenithAngle, latitude, delta, ulp) ==
  calcHourAngleOf(cosHourAngle(FMul(zenithAngle, kDeg2Rad),
                               FMul(latitude, kDeg2Rad),
                               FMul(delta, kDeg2Rad), ulp))

(***************************************************************************)
(* Validation and the sunset / sunrise queries                             *)
(***************************************************************************)
\* Variant: the first and last year excluded
validateInputsExclusive(year, month, day, latitude, longitude, timezone) ==
  /\ year > 1900 /\ year < 2100
  /\ month >= 1 /\ month <= 12
  /\ day >= 1 /\ day <= 31
  /\ latitude >= 0 - 90 * Unit /\ latitude <= 90 * Unit
  /\ longitude >= 0 - 180 * Unit /\ longitude <= 180 * Unit
  /\ timezone >= 0 - 12 /\ timezone <= 14

\* Variant: the day checked against the length of its month
validateInputsOfCalendar(year, month, day, latitude, longitude, timezone) ==
  IF year < 1900 \/ year > 2100 THEN FALSE
  ELSE IF ~IsRealDate(year, month, day) THEN FALSE
  ELSE IF latitude < 0 - 90 * Unit \/ latitude > 90 * Unit THEN FALSE
  ELSE IF longitude < 0 - 180 * Unit \/ longitude > 180 * Unit THEN FALSE
  ELSE IF timezone < 0 - 12 \/ timezone > 14 THEN FALSE
  ELSE TRUE

validateInputs(year, month, day, latitude, longitude, timezone) ==
  IF year < 1900 \/ year > 2100 THEN FALSE
  ELSE IF month < 1 \/ month > 12 THEN FALSE
  ELSE IF day < 1 \/ day > 31 THEN FALSE
  ELSE IF latitude < 0 - 90 * Unit \/ latitude > 90 * Unit THEN FALSE
  ELSE IF longitude < 0 - 180 * Unit \/ longitude > 180 * Unit THEN FALSE
  ELSE IF timezone < 0 - 12 \/ timezone > 14 THEN FALSE
  ELSE TRUE

\* A query: the arguments of getSunset / getSunrise.  ulp is not an argument
\* of the program: it stands for the rounding of the doubles that the grid
\* cannot tell from a critical value (cosHourAngle at the poles, an hour of
\* zero before the normalising loops).
Query(year, month, day, latitude, longitude, timezone, altitude_meters, ulp) ==
  [year |-> year, month |-> month, day |-> day, latitude |-> latitude,
   longitude |-> longitude, timezone |-> timezone,
   altitude_meters |-> altitude_meters, ulp |-> ulp]

\* What a call hands back: the return value, what it stores through
\* out_solarNoon and out_delta when they are supplied, and the stages it ran.
Outcome(ret, solarNoon, delta, stages) ==
  [ret |-> ret, solarNoon |-> solarNoon, delta |-> delta, stages |-> stages]

\* Steps 4-7 and 9 of getSunset, and the same lines of getSunrise: the
\* orbital elements at Julian century t, with the default algorithms
elementsC(t, L, M, C) ==
  [L |-> L, M |-> M, C |-> C,
   lambda |-> L + C
              + nutationInLongitude(
                  longitudeAscendingNode(t, "REDA_ANDREAS_SPA"), t, L),
   e |-> eccentricity(t),
   epsilon |-> obliquityOfEcliptic(t, "NOAA")]

elementsLM(t, L, M) == elementsC(t, L, M, equationOfCenter(t, M, "NOAA"))

elementsAt(t) == elementsLM(t, meanLongitude(t, "NOAA"), meanAnomaly(t, "NOAA"))

\* asin(sin(epsilon * kDeg2Rad) * sin(lambda * kDeg2Rad)) * kRad2Deg
declination(epsilon, lambda) ==
  FMul(Asin(FMul(Sin(FMul(epsilon, kDeg2Rad)), Sin(FMul(lambda, kDeg2Rad)))),
       kRad2Deg)

\* pow(tan(h), 2)
tanSquared(h) == FMul(FDiv(Sin(h), Cos(h)), FDiv(Sin(h), Cos(h)))

\* Step 11, the equation of time after Smart (1956), in hours
smartEquationOfTime(y, e, L_rad, M_rad) ==
  TDiv(FMul(FMul(y, Sin(2 * L_rad)) - 2 * FMul(e, Sin(M_rad))
            + 4 * FMul(FMul(e, y), FMul(Sin(M_rad), Cos(2 * L_rad)))
            - TDiv(FMul(FMul(y, y), Sin(4 * L_rad)), 2)
            - TDiv(5 * FMul(FMul(e, e), Sin(2 * M_rad)), 4),
            kRad2Deg), 15)

sunsetStages ==
  <<"getJulianDate", "getJ2000", "getJulianCentury", "meanLongitude",
    "meanAnomaly", "equationOfCenter", "longitudeAscendingNode",
    "nutationInLongitude", "eccentricity", "radiusVector", "getZenith",
    "obliquityOfEcliptic", "declination", "hourAngle", "equationOfTime",
    "solarNoon", "sunsetTime">>

\* Step 12 and the stores through the out-pointers
sunsetStep12(delta, HA, solar_noon) ==
  Outcome(IF HA = NaN THEN NaN ELSE Wrap24(solar_noon + HA), solar_noon, delta,
          sunsetStages)

\* Steps 10 and 11
sunsetStep10(q, zenith, delta, eot) ==
  sunsetStep12(delta, TDiv(hourAngle(zenith, q.latitude, delta, q.ulp), 15),
               Wrap24Rounded(12 * Unit - TDiv(q.longitude, 15) - eot
                             + q.timezone * Unit, q.ulp))

\* Steps 8, 9 and the equation of time of step 11
sunsetStep8(q, s) ==
  sunsetStep10(q, getZenith(s.M + s.C, s.C, q.altitude_meters),
               declination(s.epsilon, s.lambda),
               smartEquationOfTime(
                 tanSquared(TDiv(FMul(s.epsilon, kDeg2Rad), 2)), s.e,
                 FMul(s.L, kDeg2Rad), FMul(s.M, kDeg2Rad)))

\* Steps 1-12 of getSunset
sunsetPipeline(q) ==
  sunsetStep8(q, elementsAt(getJulianCentury(getJ2000(
                     getJulianDate(q.year, q.month, q.day)))))

\* the stages of a call that passed validation
Validated(p) ==
  Outcome(p.ret, p.solarNoon, p.delta, <<"validateInputs">> \o p.stages)

\* Variant: the pipeline run first and its result thrown away on bad input
getSunsetComputeFirst(q) ==
  IF ~validateInputs(q.year, q.month, q.day, q.latitude, q.longitude, q.timezone)
    THEN Outcome(24 * Unit, 0 - Unit, 0 - 999 * Unit,
                 sunsetPipeline(q).stages \o <<"validateInputs">>)
    ELSE Validated(sunsetPipeline(q))

getSunset(q) ==
  IF ~validateInputs(q.year, q.month, q.day, q.latitude, q.longitude, q.timezone)
    THEN Outcome(24 * Unit, 0 - Unit, 0 - 999 * Unit, <<"validateInputs">>)
    ELSE Validated(sunsetPipeline(q))

sunriseStages ==
  <<"getJulianDate", "getJ2000", "getJulianCentury", "meanLongitude",
    "meanAnomaly", "equationOfCenter", "longitudeAscendingNode",
    "nutationInLongitude", "obliquityOfEcliptic", "declination", "getZenith",
    "hourAngle", "sunriseTime">>

\* Variant: the hour angle added to solar noon
sunriseTimeAfterNoon(solar_noon, calculated_delta, HA, ulp) ==
  Outcome(IF HA = NaN THEN NaN ELSE Wrap24Rounded(solar_noon + HA, ulp),
          solar_noon, calculated_delta, sunriseStages)

\* sunrise_time = solar_noon - HA, normalised, and the stores
sunriseTime(solar_noon, calculated_delta, HA, ulp) ==
  Outcome(IF HA = NaN THEN NaN ELSE Wrap24Rounded(solar_noon - HA, ulp),
          solar_noon, calculated_delta, sunriseStages)

sunriseHourAngle(q, solar_noon, calculated_delta, zenith) ==
  sunriseTime(solar_noon, calculated_delta,
              TDiv(hourAngle(zenith, q.latitude, calculated_delta, q.ulp), 15),
              q.ulp)

sunriseFrom(q, solar_noon, s) ==
  sunriseHourAngle(q, solar_noon, declination(s.epsilon, s.lambda),
                   getZenith(s.M + s.C, s.C, q.altitude_meters))

\* The recomputation after the inner getSunset call
sunrisePipeline(q, solar_noon) ==
  sunriseFrom(q, solar_noon,
              elementsAt(getJulianCentury(getJ2000(
                getJulianDate(q.year, q.month, q.day)))))

\* the stages of the inner getSunset call, then those of the recomputation
After(s, p) == Outcome(p.ret, p.solarNoon, p.delta, s.stages \o p.stages)

\* getSunrise from the safety check on; s is what the inner getSunset stored
sunriseAfterSunset(q, s) ==
  IF s.solarNoon < 0 \/ s.solarNoon >= 24 * Unit
    THEN Outcome(0 - Unit, 0 - Unit, 0 - 999 * Unit, s.stages)
    ELSE After(s, sunrisePipeline(q, s.solarNoon))

\* Variant: the failure values of getSunset returned by getSunrise
getSunriseFailingAsSunset(q) ==
  IF ~validateInputs(q.year, q.month, q.day, q.latitude, q.longitude, q.timezone)
    THEN Outcome(24 * Unit, 0 - Unit, 0 - 999 * Unit, <<"validateInputs">>)
    ELSE Validated(sunriseAfterSunset(q, getSunset(q)))

getSunrise(q) ==
  IF ~validateInputs(q.year, q.month, q.day, q.latitude, q.longitude, q.timezone)
    THEN Outcome(0 - Unit, 0 - Unit, 0 - 999 * Unit, <<"validateInputs">>)
    ELSE Validated(sunriseAfterSunset(q, getSunset(q)))

(***************************************************************************)
(* solar_utils and the event catalogs                                      *)
(***************************************************************************)
kSolarAngularRadius == 2667
kAtmosphericRefraction == 5667
kStandardSunsetElevation == 0 - (kSolarAngularRadius + kAtmosphericRefraction)

\* Variant: the angle subtracted, as the struct comments put it
sunAngleToZenithSubtracting(sunAngle) == 90 * Unit - sunAngle

\* solar_utils::sunAngleToZenith
sunAngleToZenith(sunAngle) == 90 * Unit + sunAngle

\* the static sunAngleToZenith of the stand-alone twilight_table.cpp
tableSunAngleToZenith(sunAngle) == 90 * Unit - sunAngle

\* One catalog entry: TwilightEvent / MorningEvent / SolarEvent without the
\* colour.  isMorning is a field of SolarEvent; for the two table renderers it
\* is the loop the entry is rendered by (solarNoon - HA or solarNoon + HA).
Event(label, sunAngle, zenith, isMorning, isNoon) ==
  [label |-> label, sunAngle |-> sunAngle, zenith |-> zenith,
   isMorning |-> isMorning, isNoon |-> isNoon]

\* printTwilightTable (shared-utility version)
twilightTableEvents ==
  << Event("Golden hour starts", 0 - 6 * Unit, sunAngleToZenith(0 - 6 * Unit),
           FALSE, FALSE),
     Event("Sunset", 0, 90 * Unit - kStandardSunsetElevation,
           FALSE, FALSE),
     Event("Golden hour ends", 4 * Unit, sunAngleToZenith(4 * Unit),
           FALSE, FALSE),
     Event("Civil twilight ends", 6 * Unit, sunAngleToZenith(6 * Unit),
           FALSE, FALSE),
     Event("Nautical twilight ends", 12 * Unit, sunAngleToZenith(12 * Unit),
           FALSE, FALSE),
     Event("Astronomical twilight ends", 18 * Unit, sunAngleToZenith(18 * Unit),
           FALSE, FALSE) >>

\* printMorningTable, morning arrival section
morningEvents ==
  << Event("Astronomical twilight begins", 18 * Unit, sunAngleToZenith(18 * Unit),
           TRUE, FALSE),
     Event("Nautical twilight begins", 12 * Unit, sunAngleToZenith(12 * Unit),
           TRUE, FALSE),
     Event("Civil twilight begins", 6 * Unit, sunAngleToZenith(6 * Unit),
           TRUE, FALSE),
     Event("Golden hour starts", 4 * Unit, sunAngleToZenith(4 * Unit),
           TRUE, FALSE),
     Event("Sunrise", 0, 90 * Unit - kStandardSunsetElevation,
           TRUE, FALSE),
     Event("Golden hour ends", 0 - 6 * Unit, sunAngleToZenith(0 - 6 * Unit),
           TRUE, FALSE) >>

\* printMorningTable, evening departure section
eveningEvents ==
  << Event("Golden hour ends", 0 - 6 * Unit, sunAngleToZenith(0 - 6 * Unit),
           FALSE, FALSE),
     Event("Sunset", 0, 90 * Unit - kStandardSunsetElevation,
           FALSE, FALSE),
     Event("Golden hour starts", 4 * Unit, sunAngleToZenith(4 * Unit),
           FALSE, FALSE),
     Event("Civil twilight ends", 6 * Unit, sunAngleToZenith(6 * Unit),
           FALSE, FALSE),
     Event("Nautical twilight ends", 12 * Unit, sunAngleToZenith(12 * Unit),
           FALSE, FALSE),
     Event("Astronomical twilight ends", 18 * Unit, sunAngleToZenith(18 * Unit),
           FALSE, FALSE) >>

\* main of twilight.cpp
twilightMainEvents ==
  << Event("Astronomical twilight starts", 0 - 18 * Unit,
           sunAngleToZenith(18 * Unit), TRUE, FALSE),
     Event("Nautical twilight starts", 0 - 12 * Unit,
           sunAngleToZenith(12 * Unit), TRUE, FALSE),
     Event("Civil twilight starts", 0 - 6 * Unit,
           sunAngleToZenith(6 * Unit), TRUE, FALSE),
     Event("Sunrise", 0, 90 * Unit - kStandardSunsetElevation,
           TRUE, FALSE),
     Event("Solar noon", 0, 0, FALSE, TRUE),
     Event("Golden hour starts", 0 - 6 * Unit, sunAngleToZenith(0 - 6 * Unit),
           FALSE, FALSE),
     Event("Sunset", 0, 90 * Unit - kStandardSunsetElevation,
           FALSE, FALSE),
     Event("Golden hour ends", 4 * Unit, sunAngleToZenith(4 * Unit),
           FALSE, FALSE),
     Event("Civil twilight ends", 6 * Unit, sunAngleToZenith(6 * Unit),
           FALSE, FALSE),
     Event("Nautical twilight ends", 12 * Unit, sunAngleToZenith(12 * Unit),
           FALSE, FALSE),
     Event("Astronomical twilight ends", 18 * Unit, sunAngleToZenith(18 * Unit),
           FALSE, FALSE) >>

\* printTwilightTable of the stand-alone twilight_table.cpp, whose zeniths
\* come from its own static helper
standaloneTableEvents ==
  << Event("Golden hour starts", 0 - 6 * Unit, tableSunAngleToZenith(0 - 6 * Unit),
           FALSE, FALSE),
     Event("Sunset", 0, tableSunAngleToZenith(0), FALSE, FALSE),
     Event("Golden hour ends", 4 * Unit, tableSunAngleToZenith(4 * Unit),
           FALSE, FALSE),
     Event("Civil twilight ends", 6 * Unit, tableSunAngleToZenith(6 * Unit),
           FALSE, FALSE),
     Event("Nautical twilight ends", 12 * Unit, tableSunAngleToZenith(12 * Unit),
           FALSE, FALSE),
     Event("Astronomical twilight ends", 18 * Unit,
           tableSunAngleToZenith(18 * Unit), FALSE, FALSE) >>

\* One table row: the hour angle of the entry and, when it occurs, the event
\* time solarNoon - HA (morning) or solarNoon + HA (evening), as computed.
Row(event, solarNoon, latitude, delta, ulp) ==
  LET HA_deg == IF event.isNoon THEN 0
                ELSE calcHourAngle(event.zenith, latitude, delta, ulp)
      HA == TDiv(HA_deg, 15)
  IN [event |-> event,
      occurs |-> ~(HA_deg < 0),
      eventTime |-> IF HA_deg < 0 THEN 0 - Unit
                    ELSE IF event.isNoon THEN solarNoon
                    ELSE IF event.isMorning THEN solarNoon - HA
                    ELSE solarNoon + HA]

Rows(events, solarNoon, latitude, delta, ulp) ==
  [i \in 1..Len(events) |-> Row(events[i], solarNoon, latitude, delta, ulp)]

(***************************************************************************)
(* What is printed.  A printed field is its text form with the hour and    *)
(* minute it shows, if any.                                                *)
(***************************************************************************)
Shown(text, hr, min) == [text |-> text, hr |-> hr, min |-> min]

\* floor(x) and static_cast<int>(x) of an hour count
Floor(x) == x \div Unit
Trunc(x) == Sign(x) * (Abs(x) \div Unit)

\* format_utils::formatHHMM
formatHHMM(fhr) ==
  IF fhr < 0 THEN Shown("--:--", 0, 0)
  ELSE Shown("HH:MM", Floor(fhr), Floor((fhr - Floor(fhr) * Unit) * 60))

\* format_utils::formatSignedHHMM
formatSignedHHMM(timeDiff) ==
  Shown(IF timeDiff < 0 THEN "+HH:MM" ELSE "-HH:MM",
        Trunc(Abs(timeDiff)),
        Trunc((Abs(timeDiff) - Trunc(Abs(timeDiff)) * Unit) * 60))

\* hour2time(fhr, false, false) of the sunset planner
hour2time(fhr) ==
  Shown("HH:MM", Floor(fhr), Floor((fhr - Floor(fhr) * Unit) * 60))

\* the int a static_cast<int> of a NaN leaves on the build at hand, and the
\* one that a build free to assume the cast never happens may leave
kIntMin == 0 - 2147483647 - 1
CastsOfNaN == {kIntMin, 0}

\* decimalHoursToHMS from outMinutes on
hmsSeconds(outHours, remaining, outMinutes) ==
  [outHours |-> outHours, outMinutes |-> outMinutes,
   outSeconds |-> Trunc((remaining - outMinutes * Unit) * 60)]

\* decimalHoursToHMS from remaining on
hmsMinutes(outHours, remaining) ==
  hmsSeconds(outHours, remaining, Trunc(remaining))

\* Variant: half a second added, so that the seconds are rounded, not cut
decimalHoursToHMSRounded(hours) ==
  hmsMinutes(Trunc(hours), (hours - Trunc(hours) * Unit) * 60 + 83)

\* SunsetCalculator::decimalHoursToHMS for a number
decimalHoursToHMS(hours) ==
  hmsMinutes(Trunc(hours), (hours - Trunc(hours) * Unit) * 60)

\* SunsetCalculator::decimalHoursToHMS: what it may store.  The cast of a NaN
\* to int is undefined.
decimalHoursToHMSStores(hours) ==
  IF hours = NaN
    THEN {[outHours |-> c, outMinutes |-> c, outSeconds |-> c] : c \in CastsOfNaN}
    ELSE {decimalHoursToHMS(hours)}

\* config::commute
kDefaultCommuteMinutes == 37
kWorkdayHours == 85000
kMinutesPerHour == 60

\* commuteMinutes / kMinutesPerHour
commuteHours == (kDefaultCommuteMinutes * Unit) \div kMinutesPerHour

\* One printed table line of a row: the Time, Leave and Dept columns.  lead is
\* what the renderer subtracts from the event time to get the departure time.
Line(r, lead, currentTime) ==
  IF ~r.occurs
    THEN [label |-> r.event.label, time |-> Shown("--:--", 0, 0),
          leave |-> Shown("N/A", 0, 0), dept |-> Shown("--:--", 0, 0)]
    ELSE [label |-> r.event.label, time |-> formatHHMM(r.eventTime),
          leave |-> formatSignedHHMM(r.eventTime - lead - currentTime),
          dept |-> IF r.eventTime - lead - currentTime < 0
                     THEN Shown(" PAST", 0, 0)
                     ELSE formatHHMM(r.eventTime - lead)]

Lines(rows, lead, currentTime) ==
  [i \in DOMAIN rows |-> Line(rows[i], lead, currentTime)]

\* printTwilightTable as the sunset planner calls it
twilightTableLines(solarNoon, latitude, delta, currentTime, ulp) ==
  Lines(Rows(twilightTableEvents, solarNoon, latitude, delta, ulp),
        commuteHours, currentTime)

\* printMorningTable as the sunrise planner calls it: the morning arrival
\* section, then the evening departure section
morningTableLines(solarNoon, latitude, delta, currentTime, ulp) ==
  Lines(Rows(morningEvents, solarNoon, latitude, delta, ulp),
        commuteHours, currentTime)
  \o Lines(Rows(eveningEvents, solarNoon, latitude, delta, ulp),
           2 * commuteHours + kWorkdayHours, currentTime)

\* (HA_deg < 0) ? 0.0 : solarNoon + HA_deg / 15.0
civilTwilightEnd(solarNoon, civilTwilightHA_deg) ==
  IF civilTwilightHA_deg < 0 THEN 0 ELSE solarNoon + TDiv(civilTwilightHA_deg, 15)

\* the summary of the sunset planner, from the leave time on
sunsetSummary(civilTwilightEndTime, leaveTime, currentTime) ==
  [civilTwilightEndTime |-> civilTwilightEndTime,
   leaveTime |-> leaveTime,
   timeToLeave |-> leaveTime - currentTime,
   message |-> IF leaveTime - currentTime > 0 THEN "Leave by"
               ELSE "YOU SHOULD HAVE LEFT",
   leaveTimeStr |-> hour2time(leaveTime),
   civilTwilightStr |-> hour2time(civilTwilightEndTime),
   agoHours |-> Abs(Trunc(leaveTime - currentTime)),
   agoMins |-> Abs(Trunc(((leaveTime - currentTime)
                          - Trunc(leaveTime - currentTime) * Unit) * 60))]

\* the sunset planner after its getSunset call; s is what the call handed out
sunsetPlannerShow(q, currentTime, s, civilTwilightHA_deg) ==
  [core |-> s,
   civilTwilightHA_deg |-> civilTwilightHA_deg,
   summary |-> sunsetSummary(
                 civilTwilightEnd(s.solarNoon, civilTwilightHA_deg),
                 civilTwilightEnd(s.solarNoon, civilTwilightHA_deg) - commuteHours,
                 currentTime),
   lines |-> twilightTableLines(s.solarNoon, q.latitude, s.delta, currentTime,
                                q.ulp)]

sunsetPlannerFrom(q, currentTime, s) ==
  sunsetPlannerShow(q, currentTime, s,
                    calcHourAngle(sunAngleToZenith(6 * Unit), q.latitude,
                                  s.delta, q.ulp))

\* main of the sunset planner
sunsetPlanner(q, currentTime) == sunsetPlannerFrom(q, currentTime, getSunset(q))

\* the summary of the sunrise planner
sunriseSummary(sunrise, civilTwilightEndTime, leaveTime, homeCommuteLeaveTime, currentTime) ==
  [sunriseTime |-> sunrise,
   civilTwilightEndTime |-> civilTwilightEndTime,
   leaveTime |-> leaveTime,
   timeToLeave |-> leaveTime - currentTime,
   homeCommuteLeaveTime |-> homeCommuteLeaveTime,
   timeToLeaveForHome |-> homeCommuteLeaveTime - currentTime,
   message |-> IF leaveTime - currentTime > 0 THEN "Leave by"
               ELSE "YOU SHOULD HAVE LEFT",
   leaveHHMM |-> formatHHMM(leaveTime),
   sunriseHHMM |-> formatHHMM(sunrise),
   homeCommuteHHMM |-> formatHHMM(homeCommuteLeaveTime),
   civilTwilightHHMM |-> formatHHMM(civilTwilightEndTime),
   agoHours |-> Abs(Trunc(currentTime - homeCommuteLeaveTime)),
   agoMins |-> Abs(Trunc(((currentTime - homeCommuteLeaveTime)
                          - Trunc(currentTime - homeCommuteLeaveTime) * Unit)
                         * 60))]

\* the sunrise planner after its getSunrise call
sunrisePlannerShow(q, currentTime, s, civilTwilightHA_deg) ==
  [core |-> s,
   civilTwilightHA_deg |-> civilTwilightHA_deg,
   summary |-> sunriseSummary(
                 s.ret, civilTwilightEnd(s.solarNoon, civilTwilightHA_deg),
                 s.ret - commuteHours,
                 civilTwilightEnd(s.solarNoon, civilTwilightHA_deg)
                 - 2 * commuteHours - kWorkdayHours,
                 currentTime),
   lines |-> morningTableLines(s.solarNoon, q.latitude, s.delta, currentTime,
                               q.ulp)]

sunrisePlannerFrom(q, currentTime, s) ==
  sunrisePlannerShow(q, currentTime, s,
                     calcHourAngle(sunAngleToZenith(6 * Unit), q.latitude,
                                   s.delta, q.ulp))

\* main of the sunrise planner
sunrisePlanner(q, currentTime) ==
  sunrisePlannerFrom(q, currentTime, getSunrise(q))

(***************************************************************************)
(* The inputs explored                                                     *)
(***************************************************************************)
BaseQuery(alt, u) == Query(2026, 6, 21, 304276, 0 - 900915, 0 - 6, alt, u)

ValidLatitudes == {0 - 900000, 0 - 700000, 0, 304276, 700000, 900000}
Altitudes == {0 - 1000000, 0, 18224, 16090000}

\* the rounding of cosHourAngle matters at the poles only
UlpsAt(latitude) == IF Abs(latitude) = 90 * Unit THEN Residues ELSE {0}

\* the seasons at every latitude and altitude
SeasonQueries ==
  UNION { { Query(2026, m, 21, la, 0 - 900915, 0 - 6, alt, u) : u \in UlpsAt(la) } :
          m \in {3, 6, 12}, la \in ValidLatitudes, alt \in Altitudes }

\* the ends of every accepted range
BoundaryQueries ==
  { Query(y, m, d, 304276, lo, tz, 18224, 0) :
      y \in {1900, 2026, 2100}, m \in {1, 12}, d \in {1, 31},
      lo \in {0 - 1800000, 0 - 900915, 1800000}, tz \in {0 - 12, 0 - 6, 14} }

\* events within minutes of local midnight: the edge of the midnight sun,
\* a clock five hours ahead of the longitude's zone, and a solar noon and a
\* sunrise that fall on midnight itself
MidnightQueries ==
  { Query(2026, 6, 21, 657000, 0 - 900915, 0 - 6, a, 0) : a \in Altitudes }
  \cup { Query(2026, 6, 21, 304276, 0 - 886000, 0 - 1, a, 0) : a \in Altitudes }
  \cup { Query(2026, 6, 21, 304276, 0 - 890000, 0 - 1, 0, 0) }
  \cup { Query(2026, 6, 21, 300000, 4550, 0 - 12, 0, u) : u \in {0 - Micro, 0} }
  \cup { Query(2026, 6, 21, 304276, 0 - 903855, 0 - 11, 0, u) :
           u \in {0 - Micro, 0} }

\* days 1..31 that their month does not have, and the real dates with the
\* same day count
CalendarQueries ==
  { Query(y, m, d, 304276, 0 - 900915, 0 - 6, 18224, 0) :
      y \in {2024, 2026}, m \in {2, 3, 4, 5}, d \in {1, 2, 30, 31} }

\* the solstices of the first and the last year
SolsticeQueries ==
  { Query(y, 6, 21, 304276, 0 - 900915, 0 - 6, 18224, 0) : y \in {1900, 2100} }
  \cup
  { Query(y, 12, 22, 304276, 0 - 900915, 0 - 6, 18224, 0) : y \in {1900, 2100} }

ValidQueries ==
  SeasonQueries \cup BoundaryQueries \cup MidnightQueries \cup CalendarQueries
  \cup SolsticeQueries

\* every combination in which at least one argument is above its range
AboveQueries ==
  { Query(y, m, d, la, lo, tz, alt, 0) :
      y \in {2026, 2101}, m \in {6, 13}, d \in {21, 32},
      la \in {304276, 910000}, lo \in {0 - 900915, 1810000},
      tz \in {0 - 6, 15}, alt \in {0 - 1000000, 18224} }
  \ { BaseQuery(alt, 0) : alt \in {0 - 1000000, 18224} }

\* one argument below its range, or just outside it
BelowQueries ==
  { [BaseQuery(18224, 0) EXCEPT !.year = 1899],
    [BaseQuery(18224, 0) EXCEPT !.month = 0],
    [BaseQuery(18224, 0) EXCEPT !.day = 0],
    [BaseQuery(18224, 0) EXCEPT !.latitude = 0 - 910000],
    [BaseQuery(18224, 0) EXCEPT !.latitude = 900001],
    [BaseQuery(18224, 0) EXCEPT !.longitude = 0 - 1810000],
    [BaseQuery(18224, 0) EXCEPT !.longitude = 0 - 1800001],
    [BaseQuery(18224, 0) EXCEPT !.timezone = 0 - 13] }

InvalidQueries == AboveQueries \cup BelowQueries

Queries == ValidQueries \cup InvalidQueries

Zeniths == {840000, 900000, 908330, 908334, 960000, 1080000}
Latitudes == {0 - 900000, 0 - 700000, 0, 304276, 700000, 900000}
Declinations == {0 - 234400, 0 - 60000, 0 - 8330, 0, 60000, 234400}

SunAngles == {0 - 18 * Unit, 0 - 6 * Unit, 0, 4 * Unit, 6 * Unit, 12 * Unit, 18 * Unit}

TableNoons == {303, 121313, 239000}
TableLatitudes == {304276, 700000}
TableDeltas == {0 - 219089, 0, 234356}

\* The planners: the date of the clock and the location of config_location.h
PlannerQueries ==
  { q \in Queries : /\ q.altitude_meters = 18224 /\ q.ulp = 0
                    /\ q.longitude = 0 - 900915 /\ q.timezone = 0 - 6
                    /\ q.day = 21 /\ q.month \in {3, 6, 12} }

\* the time of day of the clock, in hours
CurrentTimes == {6 * Unit, 125000, 22 * Unit}

\* the queries of the calls followed one after another
CallQueries ==
  { BaseQuery(18224, 0), BaseQuery(0, 0),
    Query(2026, 6, 21, 700000, 0 - 900915, 0 - 6, 18224, 0),
    Query(2026, 12, 21, 304276, 0 - 900915, 0 - 6, 18224, 0),
    [BaseQuery(18224, 0) EXCEPT !.year = 2101] }

\* calendar dates: the ends of the range, a century leap year, a leap year
\* and a common year; the ends of the months
DateYears == {1900, 2000, 2024, 2026, 2100}
DateMonths == 1..12
DateDays == {1, 28, 29, 30, 31}

\* Julian centuries: 1900, J2000, the first return of L0 to 360 degrees, 2026
\* and 2100; and the steps of L0 above the grid value
Centuries == {0 - 1000000, 0, 2209, 264682, 1000000}
Withins == {0, 78, 143, 250}

\* the value of a caller's variable that the call did not store to
Unwritten == 0 - 2147483646

\* time differences in hours handed to formatSignedHHMM: before and after a
\* deadline, by a moment, by the commute, by hours
TimeDiffs == {0 - 125000, 0 - 15000, 0 - 6167, 0 - 1, 0, 1, 6167, 15000, 125000}

\* hours a caller hands to decimalHoursToHMS: the examples of the
\* documentation and the ends of a day
WrittenHours == {0, 172500, 175416, 175500, 239999, 24 * Unit}

(***************************************************************************)
(* The state: the call in progress (its operation and arguments) and what  *)
(* it handed back; the SunsetCalculator objects with their one data member; *)
(* and, where calls are followed one after another, the call that returned *)
(* before this one.                                                        *)
(***************************************************************************)
VARIABLES pc, call, res, calcs, last, cmp

vars == <<pc, call, res, calcs, last, cmp>>

\* no FileComparator has been constructed
NoComparator == [made |-> FALSE]

NoCall == [op |-> "none"]
NoResult == [op |-> "none"]

\* the calculators of a program
Calculators == {"calc", "other"}

\* a SunsetCalculator as constructed
SunsetCalculator == [use_NOAA_algorithm |-> TRUE]

\* Variant: a member function that flips the member
thisAfterCallFlipped(this) ==
  [this EXCEPT !.use_NOAA_algorithm = ~this.use_NOAA_algorithm]

\* the object after one of its member functions ran: none assigns the member
thisAfterCall(this) == this

Init ==
  /\ pc = "idle"
  /\ call = NoCall
  /\ res = NoResult
  /\ calcs = [c \in Calculators |-> SunsetCalculator]
  /\ last = [call |-> NoCall, res |-> NoResult]
  /\ cmp = NoComparator

\* what the caller sees of an Outcome, given the pointers it passed
Seen(op, o, wantNoon, wantDelta) ==
  [op |-> op, ret |-> o.ret,
   out_solarNoon |-> IF wantNoon THEN o.solarNoon ELSE Unwritten,
   out_delta |-> IF wantDelta THEN o.delta ELSE Unwritten,
   stages |-> o.stages]

GetSunset ==
  /\ pc = "idle"
  /\ \E q \in Queries :
       \E o \in {getSunset(q)}, wantNoon \in BOOLEAN, wantDelta \in BOOLEAN :
         /\ call' = [op |-> "getSunset", q |-> q,
                     wantNoon |-> wantNoon, wantDelta |-> wantDelta]
         /\ res' = Seen("getSunset", o, wantNoon, wantDelta)
  /\ pc' = "done"
  /\ UNCHANGED <<calcs, last, cmp>>

GetSunrise ==
  /\ pc = "idle"
  /\ \E q \in Queries :
       \E o \in {getSunrise(q)}, wantNoon \in BOOLEAN, wantDelta \in BOOLEAN :
         /\ call' = [op |-> "getSunrise", q |-> q,
                     wantNoon |-> wantNoon, wantDelta |-> wantDelta]
         /\ res' = Seen("getSunrise", o, wantNoon, wantDelta)
  /\ pc' = "done"
  /\ UNCHANGED <<calcs, last, cmp>>

ValidateInputs ==
  /\ pc = "idle"
  /\ \E q \in Queries :
       /\ call' = [op |-> "validateInputs", q |-> q]
       /\ res' = [op |-> "validateInputs",
                  ret |-> validateInputs(q.year, q.month, q.day, q.latitude,
                                         q.longitude, q.timezone)]
  /\ pc' = "done"
  /\ UNCHANGED <<calcs, last, cmp>>

\* SunsetCalculator::hourAngle
HourAngle ==
  /\ pc = "idle"
  /\ \E h0 \in Zeniths, phi \in Latitudes, delta \in Declinations :
       \E ulp \in UlpsAt(phi) :
         /\ call' = [op |-> "hourAngle", h0 |-> h0, phi |-> phi, delta |-> delta,
                     ulp |-> ulp]
         /\ res' = [op |-> "hourAngle", ret |-> hourAngle(h0, phi, delta, ulp)]
  /\ pc' = "done"
  /\ UNCHANGED <<calcs, last, cmp>>

\* solar_utils::calcHourAngle
CalcHourAngle ==
  /\ pc = "idle"
  /\ \E h0 \in Zeniths, phi \in Latitudes, delta \in Declinations :
       \E ulp \in UlpsAt(phi) :
         /\ call' = [op |-> "calcHourAngle", h0 |-> h0, phi |-> phi,
                     delta |-> delta, ulp |-> ulp]
         /\ res' = [op |-> "calcHourAngle",
                    ret |-> calcHourAngle(h0, phi, delta, ulp)]
  /\ pc' = "done"
  /\ UNCHANGED <<calcs, last, cmp>>

\* solar_utils::sunAngleToZenith
SunAngleToZenith ==
  /\ pc = "idle"
  /\ \E a \in SunAngles :
       /\ call' = [op |-> "sunAngleToZenith", sunAngle |-> a]
       /\ res' = [op |-> "sunAngleToZenith", ret |-> sunAngleToZenith(a)]
  /\ pc' = "done"
  /\ UNCHANGED <<calcs, last, cmp>>

\* A table: its catalog and the rows computed from it
Table(op, events) ==
  /\ pc = "idle"
  /\ \E solarNoon \in TableNoons, latitude \in TableLatitudes,
        delta \in TableDeltas :
       /\ call' = [op |-> op, solarNoon |-> solarNoon, latitude |-> latitude,
                   delta |-> delta]
       /\ res' = [op |-> op, events |-> events,
                  rows |-> Rows(events, solarNoon, latitude, delta, 0)]
  /\ pc' = "done"
  /\ UNCHANGED <<calcs, last, cmp>>

PrintTwilightTable == Table("printTwilightTable", twilightTableEvents)

PrintStandaloneTwilightTable ==
  Table("printTwilightTable (stand-alone)", standaloneTableEvents)

PrintMorningTable == Table("printMorningTable", morningEvents \o eveningEvents)

TwilightMain == Table("twilight main", twilightMainEvents)

GetJulianDate ==
  /\ pc = "idle"
  /\ \E year \in DateYears, month \in DateMonths, day \in DateDays :
       /\ call' = [op |-> "getJulianDate", year |-> year, month |-> month,
                   day |-> day]
       /\ res' = [op |-> "getJulianDate",
                  ret |-> getJulianDate(year, month, day)]
  /\ pc' = "done"
  /\ UNCHANGED <<calcs, last, cmp>>

MeanLongitude ==
  /\ pc = "idle"
  /\ \E t \in Centuries, algo \in Algorithms, within \in Withins :
       /\ call' = [op |-> "meanLongitude", t |-> t, algo |-> algo,
                   within |-> within]
       /\ res' = [op |-> "meanLongitude",
                  ret |-> meanLongitudeWithin(t, algo, within)]
  /\ pc' = "done"
  /\ UNCHANGED <<calcs, last, cmp>>

SunsetPlanner ==
  /\ pc = "idle"
  /\ \E q \in PlannerQueries, currentTime \in CurrentTimes :
       \E o \in {sunsetPlanner(q, currentTime)} :
         /\ call' = [op |-> "sunset planner", q |-> q,
                     currentTime |-> currentTime]
         /\ res' = [op |-> "sunset planner", core |-> o.core,
                    civilTwilightHA_deg |-> o.civilTwilightHA_deg,
                    summary |-> o.summary, lines |-> o.lines]
  /\ pc' = "done"
  /\ UNCHANGED <<calcs, last, cmp>>

SunrisePlanner ==
  /\ pc = "idle"
  /\ \E q \in PlannerQueries, currentTime \in CurrentTimes :
       \E o \in {sunrisePlanner(q, currentTime)} :
         /\ call' = [op |-> "sunrise planner", q |-> q,
                     currentTime |-> currentTime]
         /\ res' = [op |-> "sunrise planner", core |-> o.core,
                    civilTwilightHA_deg |-> o.civilTwilightHA_deg,
                    summary |-> o.summary, lines |-> o.lines]
  /\ pc' = "done"
  /\ UNCHANGED <<calcs, last, cmp>>

\* decimalHoursToHMS on what getSunset or getSunrise returned for q
DecimalHoursToHMSOfEvent ==
  /\ pc = "idle"
  /\ \E q \in Queries, of \in {"getSunset", "getSunrise"} :
       \E o \in {IF of = "getSunset" THEN getSunset(q) ELSE getSunrise(q)} :
         \E hms \in decimalHoursToHMSStores(o.ret) :
           /\ call' = [op |-> "decimalHoursToHMS", hours |-> o.ret, of |-> of,
                       q |-> q]
           /\ res' = [op |-> "decimalHoursToHMS", outHours |-> hms.outHours,
                      outMinutes |-> hms.outMinutes,
                      outSeconds |-> hms.outSeconds]
  /\ pc' = "done"
  /\ UNCHANGED <<calcs, last, cmp>>

\* decimalHoursToHMS on a number of hours the caller wrote down
DecimalHoursToHMS ==
  /\ pc = "idle"
  /\ \E hours \in WrittenHours :
       \E hms \in decimalHoursToHMSStores(hours) :
         /\ call' = [op |-> "decimalHoursToHMS", hours |-> hours,
                     of |-> "written"]
         /\ res' = [op |-> "decimalHoursToHMS", outHours |-> hms.outHours,
                    outMinutes |-> hms.outMinutes,
                    outSeconds |-> hms.outSeconds]
  /\ pc' = "done"
  /\ UNCHANGED <<calcs, last, cmp>>

\* format_utils::formatSignedHHMM
FormatSignedHHMM ==
  /\ pc = "idle"
  /\ \E timeDiff \in TimeDiffs :
       /\ call' = [op |-> "formatSignedHHMM", timeDiff |-> timeDiff]
       /\ res' = [op |-> "formatSignedHHMM", ret |-> formatSignedHHMM(timeDiff)]
  /\ pc' = "done"
  /\ UNCHANGED <<calcs, last, cmp>>

\* Step 6 of getSunset: nutationInLongitude(longitudeAscendingNode(t), t, L)
NutationInLongitude ==
  /\ pc = "idle"
  /\ \E t \in Centuries, form \in LongitudeAscendingNodeFormulations :
       \E Omega \in {longitudeAscendingNode(t, form)}, L \in {meanLongitude(t, "NOAA")} :
         /\ call' = [op |-> "nutationInLongitude", t |-> t, form |-> form,
                     Omega |-> Omega, X1 |-> L]
         /\ res' = [op |-> "nutationInLongitude",
                    ret |-> nutationInLongitude(Omega, t, L),
                    sinOfOmega |-> nutationOmega(Omega),
                    sinOfTwiceX1 |-> nutationTwiceX1(L)]
  /\ pc' = "done"
  /\ UNCHANGED <<calcs, last, cmp>>

\* the call returns; nothing of it is kept
Return ==
  /\ pc = "done"
  /\ pc' = "idle"
  /\ call' = NoCall
  /\ res' = NoResult
  /\ UNCHANGED <<calcs, last, cmp>>

Next ==
  \/ GetSunset
  \/ GetSunrise
  \/ ValidateInputs
  \/ HourAngle
  \/ CalcHourAngle
  \/ SunAngleToZenith
  \/ PrintTwilightTable
  \/ PrintStandaloneTwilightTable
  \/ PrintMorningTable
  \/ TwilightMain
  \/ GetJulianDate
  \/ MeanLongitude
  \/ SunsetPlanner
  \/ SunrisePlanner
  \/ DecimalHoursToHMSOfEvent
  \/ DecimalHoursToHMS
  \/ FormatSignedHHMM
  \/ NutationInLongitude
  \/ Return

Spec == Init /\ [][Next]_vars

(***************************************************************************)
(* Calls followed one after another, on one calculator or another          *)
(***************************************************************************)
\* getSunset on calculator c, both pointers supplied
GetSunsetOn ==
  /\ pc = "idle"
  /\ \E c \in Calculators, q \in CallQueries :
       \E o \in {getSunset(q)} :
         /\ call' = [op |-> "getSunset", q |-> q, wantNoon |-> TRUE,
                     wantDelta |-> TRUE, on |-> c]
         /\ res' = Seen("getSunset", o, TRUE, TRUE)
         /\ calcs' = [calcs EXCEPT ![c] = thisAfterCall(calcs[c])]
  /\ pc' = "done"
  /\ UNCHANGED <<last, cmp>>

\* getSunrise on calculator c, both pointers supplied
GetSunriseOn ==
  /\ pc = "idle"
  /\ \E c \in Calculators, q \in CallQueries :
       \E o \in {getSunrise(q)} :
         /\ call' = [op |-> "getSunrise", q |-> q, wantNoon |-> TRUE,
                     wantDelta |-> TRUE, on |-> c]
         /\ res' = Seen("getSunrise", o, TRUE, TRUE)
         /\ calcs' = [calcs EXCEPT ![c] = thisAfterCall(calcs[c])]
  /\ pc' = "done"
  /\ UNCHANGED <<last, cmp>>

\* the call returns; the observer notes it as the call made before the next
ReturnNoted ==
  /\ pc = "done"
  /\ pc' = "idle"
  /\ last' = [call |-> call, res |-> res]
  /\ call' = NoCall
  /\ res' = NoResult
  /\ UNCHANGED <<calcs, cmp>>

NextCalls ==
  \/ GetSunsetOn
  \/ GetSunriseOn
  \/ ReturnNoted

SpecCalls == Init /\ [][NextCalls]_vars

(***************************************************************************)
(* The file comparator: DifferenceProcessor and the counters, flags and    *)
(* maxima it shares with its FileComparator.  Values and thresholds are in *)
(* 1/10000.                                                                *)
(***************************************************************************)
\* how many differences are followed
MaxDifferences == 3

\* pow(10.0, n) for the decimal places met
TenTo(n) == IF n <= 0 THEN 1 ELSE IF n = 1 THEN 10 ELSE IF n = 2 THEN 100 ELSE 1000

\* std::round to a multiple of step: halfway cases away from zero
RoundTo(value, step) == Sign(value) * (((Abs(value) + step \div 2) \div step) * step)

\* DifferenceProcessor::round_to_decimal_places
round_to_decimal_places(value, decimal_places) ==
  IF decimal_places <= 0 THEN RoundTo(value, Unit)
  ELSE RoundTo(value, Unit \div TenTo(decimal_places))

\* Variant: the threshold of FormatManager::calculate_threshold, 1.0 for
\* whole numbers
formatThresholdOfFormatManager(minimum_deci) ==
  IF minimum_deci <= 0 THEN Unit ELSE (Unit \div TenTo(minimum_deci)) \div 2

\* std::pow(10.0, -minimum_deci) / 2.0
formatThreshold(minimum_deci) == (Unit \div TenTo(minimum_deci)) \div 2

\* FileReader::parse_line and FileComparator::extract_column_values: a column
\* of two lines, with the decimal places counted in the text
ColumnValues(value1, value2, dp1, dp2) ==
  [value1 |-> value1, value2 |-> value2, dp1 |-> dp1, dp2 |-> dp2,
   min_dp |-> IF dp1 < dp2 THEN dp1 ELSE dp2]

\* the three thresholds of the constructor, and marginal, whose initializer
\* is in uband_diff.h
Thresholds(significant, critical, print, marginal) ==
  [significant |-> significant, critical |-> critical, print |-> print,
   marginal |-> marginal]

\* the zeroed CountStats
CountStats ==
  [diff_non_zero |-> 0, diff_non_trivial |-> 0, diff_significant |-> 0,
   diff_marginal |-> 0, diff_print |-> 0, diff_critical |-> 0]

\* the Flags before any difference
Flags ==
  [has_non_zero_diff |-> FALSE, has_non_trivial_diff |-> FALSE,
   has_significant_diff |-> FALSE, has_marginal_diff |-> FALSE,
   has_printed_diff |-> FALSE, has_critical_diff |-> FALSE,
   files_are_same |-> TRUE, files_have_same_values |-> TRUE,
   files_are_close_enough |-> TRUE, error_found |-> FALSE]

\* the DiffStats before any difference
DiffStats ==
  [max_non_zero |-> 0, ndp_non_zero |-> 0, max_non_trivial |-> 0,
   ndp_non_trivial |-> 0, max_significant |-> 0, ndp_significant |-> 0,
   ndp_max |-> 0]

\* FileComparator::FileComparator
FileComparator(thresh) ==
  [made |-> TRUE, thresh |-> thresh, counter |-> CountStats, flag |-> Flags,
   differ |-> DiffStats, processed |-> 0]

\* DifferenceProcessor::process_raw_values
process_raw_values(c, column_data, raw_diff) ==
  [c EXCEPT
     !.differ.max_non_zero = IF raw_diff > @ THEN raw_diff ELSE @,
     !.differ.ndp_non_zero =
        IF raw_diff > c.differ.max_non_zero
          THEN (IF column_data.dp1 > column_data.dp2 THEN column_data.dp1
                ELSE column_data.dp2)
          ELSE @,
     !.counter.diff_non_zero =
        IF raw_diff > 0 \/ column_data.dp1 # column_data.dp2 THEN @ + 1 ELSE @,
     !.flag.has_non_zero_diff =
        IF raw_diff > 0 \/ column_data.dp1 # column_data.dp2 THEN TRUE ELSE @,
     !.flag.files_are_same =
        IF raw_diff > 0 \/ column_data.dp1 # column_data.dp2 THEN FALSE ELSE @]

\* DifferenceProcessor::process_rounded_values: the format precision
rounded_non_trivial(c, rounded_diff, minimum_deci, format_threshold) ==
  IF rounded_diff > format_threshold
    THEN [c EXCEPT
            !.counter.diff_non_trivial = @ + 1,
            !.flag.has_non_trivial_diff = TRUE,
            !.flag.files_have_same_values = FALSE,
            !.differ.max_non_trivial = IF rounded_diff > @ THEN rounded_diff ELSE @,
            !.differ.ndp_non_trivial =
               IF rounded_diff > c.differ.max_non_trivial THEN minimum_deci ELSE @]
    ELSE c

\* DifferenceProcessor::process_rounded_values: the significant threshold
rounded_significant(c, rounded_diff, minimum_deci) ==
  IF rounded_diff > c.thresh.significant
    THEN [c EXCEPT
            !.counter.diff_significant = @ + 1,
            !.flag.has_significant_diff = TRUE,
            !.flag.files_are_close_enough = FALSE,
            !.differ.max_significant = IF rounded_diff > @ THEN rounded_diff ELSE @,
            !.differ.ndp_significant =
               IF rounded_diff > c.differ.max_significant THEN minimum_deci ELSE @]
    ELSE c

\* DifferenceProcessor::process_rounded_values: the marginal and print
\* thresholds, and the decimal places of the maximum
rounded_rest(c, rounded_diff, minimum_deci) ==
  [c EXCEPT
     !.counter.diff_marginal = IF rounded_diff > c.thresh.marginal THEN @ + 1 ELSE @,
     !.flag.has_marginal_diff = IF rounded_diff > c.thresh.marginal THEN TRUE ELSE @,
     !.counter.diff_print = IF rounded_diff > c.thresh.print THEN @ + 1 ELSE @,
     !.flag.has_printed_diff = IF rounded_diff > c.thresh.print THEN TRUE ELSE @,
     !.differ.ndp_max = IF rounded_diff > c.differ.max_significant THEN minimum_deci ELSE @]

\* DifferenceProcessor::process_rounded_values
process_rounded_values(c, rounded_diff, minimum_deci) ==
  rounded_rest(
    rounded_significant(
      rounded_non_trivial(c, rounded_diff, minimum_deci,
                          formatThreshold(minimum_deci)),
      rounded_diff, minimum_deci),
    rounded_diff, minimum_deci)

\* DifferenceProcessor::process_difference: the check of the critical
\* threshold
critical_check(c, rounded_diff) ==
  IF rounded_diff > c.thresh.critical
    THEN [c EXCEPT !.counter.diff_critical = @ + 1,
                   !.flag.has_critical_diff = TRUE,
                   !.flag.error_found = TRUE]
    ELSE c

\* DifferenceProcessor::process_difference
process_difference(c, column_data, rounded_diff) ==
  critical_check(
    process_rounded_values(
      process_raw_values(c, column_data,
                         Abs(column_data.value1 - column_data.value2)),
      rounded_diff, column_data.min_dp),
    rounded_diff)

\* the thresholds a comparator is made with
UserThresholds == {0 - 100, 0, 500}
HardThresholds == {10000}
PrintThresholds == {10}
MarginalThresholds == {0, 1000}

\* the numbers and decimal places of the columns compared
FirstValues == {10000, 10400}
SecondValues == {10000, 10004, 10400, 15000, 30000}
DecimalPlaces == {0, 1, 3}

\* FileComparator::FileComparator
Construct ==
  /\ ~cmp.made
  /\ \E u \in UserThresholds, h \in HardThresholds, p \in PrintThresholds,
        m \in MarginalThresholds :
       cmp' = FileComparator(Thresholds(u, h, p, m))
  /\ UNCHANGED <<pc, call, res, calcs, last>>

\* DifferenceProcessor::process_difference on one column of one line
ProcessDifference ==
  /\ cmp.made /\ cmp.processed < MaxDifferences
  /\ \E value1 \in FirstValues, value2 \in SecondValues,
        dp1 \in DecimalPlaces, dp2 \in DecimalPlaces :
       \E d \in {ColumnValues(value1, value2, dp1, dp2)} :
         cmp' = [process_difference(
                   cmp, d,
                   Abs(round_to_decimal_places(d.value1, d.min_dp)
                       - round_to_decimal_places(d.value2, d.min_dp)))
                 EXCEPT !.processed = @ + 1]
  /\ UNCHANGED <<pc, call, res, calcs, last>>

NextDiff ==
  \/ Construct
  \/ ProcessDifference

SpecDiff == Init /\ [][NextDiff]_vars

(***************************************************************************)
(* Properties                                                              *)
(***************************************************************************)
\* The documented ranges: year 1900-2100, month 1-12, day 1-31, latitude
\* -90..90, longitude -180..180, timezone -12..14
InRange(q) ==
  /\ q.year >= 1900 /\ q.year <= 2100
  /\ q.month >= 1 /\ q.month <= 12
  /\ q.day >= 1 /\ q.day <= 31
  /\ q.latitude >= 0 - 90 * Unit /\ q.latitude <= 90 * Unit
  /\ q.longitude >= 0 - 180 * Unit /\ q.longitude <= 180 * Unit
  /\ q.timezone >= 0 - 12 /\ q.timezone <= 14

\* a getSunset or getSunrise call has returned
SunCallDone == pc = "done" /\ call.op \in {"getSunset", "getSunrise"}

\* the failure value of the call that returned
FailureValue == IF call.op = "getSunset" THEN 24 * Unit ELSE 0 - Unit

\* a local clock time in hours
IsClockTime(x) == x # NaN /\ x >= 0 /\ x < 24 * Unit

\* C1: when any of year, month, day, latitude, longitude or timezone is
\* outside its range, getSunset returns 24.0 and getSunrise returns -1.0, and
\* each stores -1.0 through out_solarNoon and -999.0 through out_delta when
\* the pointer is supplied.
C1_InvalidInputSentinels ==
  (SunCallDone /\ ~InRange(call.q)) =>
    /\ res.ret = FailureValue
    /\ call.wantNoon => res.out_solarNoon = 0 - Unit
    /\ call.wantDelta => res.out_delta = 0 - 999 * Unit

\* getSunrise has failed on month 13 with both pointers supplied
C1_Witness ==
  /\ pc = "done" /\ call.op = "getSunrise"
  /\ call.q.month = 13 /\ call.wantNoon /\ call.wantDelta
  /\ res.ret = 0 - Unit
  /\ res.out_solarNoon = 0 - Unit /\ res.out_delta = 0 - 999 * Unit

\* cos H of the sunrise/sunset zenith for the query of the call, at the
\* declination the call stored
SunsetCosH ==
  cosHourAngle(FMul(getZenith(0, 0, call.q.altitude_meters), kDeg2Rad),
               FMul(call.q.latitude, kDeg2Rad), FMul(res.out_delta, kDeg2Rad),
               call.q.ulp)

\* the sun does not cross the sunrise/sunset zenith on the date of the call
NeverCrosses == call.wantDelta /\ Abs(SunsetCosH) > Micro

\* C2: for validated input on a date when the sun never crosses the
\* sunrise/sunset zenith (polar day, polar night), getSunset and getSunrise
\* report the event as not occurring and return no local clock time for it.
C2_PolarNotOccurring ==
  (SunCallDone /\ InRange(call.q) /\ NeverCrosses) => ~IsClockTime(res.ret)

\* getSunset has returned a clock time for a midsummer day at latitude 70
C2_Witness ==
  /\ pc = "done" /\ call.op = "getSunset"
  /\ call.q.latitude = 70 * Unit /\ call.q.month = 6
  /\ NeverCrosses /\ IsClockTime(res.ret)

\* an hour-angle solver has returned
HourAngleDone == pc = "done" /\ call.op \in {"hourAngle", "calcHourAngle"}

\* cos H of the call
CallCosH ==
  cosHourAngle(FMul(call.h0, kDeg2Rad), FMul(call.phi, kDeg2Rad),
               FMul(call.delta, kDeg2Rad), call.ulp)

\* C3: when cosH > 1 or cosH < -1 the hour-angle solver returns a result
\* that says the event does not occur, which no angle in [0, 180] is.
C3_NotOccurringDistinguishable ==
  (HourAngleDone /\ Abs(CallCosH) > Micro) =>
    (res.ret < 0 \/ res.ret > 180 * Unit)

\* hourAngle has returned 180 for a sun that never sets
C3_Witness ==
  /\ pc = "done" /\ call.op = "hourAngle"
  /\ CallCosH < 0 - Micro /\ res.ret = 180 * Unit

\* C4: for every zenith, every latitude in [-90, 90], the poles included, and
\* every declination, the hour-angle solver yields no NaN: its result is the
\* not-occurring value or a finite angle in [0, 180] degrees.
C4_HourAngleTotal ==
  HourAngleDone =>
    /\ res.ret # NaN
    /\ res.ret = 0 - Unit \/ (res.ret >= 0 /\ res.ret <= 180 * Unit)

\* a solver has returned at a pole, where cos(latitude) vanishes
C4_Witness ==
  /\ HourAngleDone /\ Abs(call.phi) = 90 * Unit
  /\ call.h0 = 90 * Unit /\ call.delta = 0 /\ call.ulp = 0
  /\ res.ret # NaN

\* C5: for every input that validation accepts, the time getSunset returns
\* and the time getSunrise returns are in [0, 24).
C5_TimeInDay ==
  (SunCallDone /\ InRange(call.q)) => IsClockTime(res.ret)

\* a sunrise on midnight itself, its double a hair before it: getSunrise has
\* returned 24.0
C5_Witness ==
  /\ pc = "done" /\ call.op = "getSunrise" /\ InRange(call.q)
  /\ call.q.ulp < 0 /\ Abs(call.q.latitude) < 90 * Unit
  /\ res.ret = 24 * Unit

\* validateInputs has returned
ValidateDone == pc = "done" /\ call.op = "validateInputs"

\* C6: validateInputs rejects year 1899, month 13, day 32, latitude 91,
\* longitude 181 and timezone 15, and accepts every tuple within the ranges,
\* the boundary values year 1900 and 2100, latitude +/-90, longitude +/-180,
\* timezone -12 and +14 among them.
C6_ValidateBoundaries ==
  ValidateDone =>
    /\ call.q.year = 1899 => ~res.ret
    /\ call.q.month = 13 => ~res.ret
    /\ call.q.day = 32 => ~res.ret
    /\ call.q.latitude = 91 * Unit => ~res.ret
    /\ call.q.longitude = 181 * Unit => ~res.ret
    /\ call.q.timezone = 15 => ~res.ret
    /\ InRange(call.q) => res.ret

\* the last year, the last day, the easternmost longitude and timezone accepted
C6_Witness ==
  /\ ValidateDone /\ res.ret
  /\ call.q.year = 2100 /\ call.q.day = 31
  /\ call.q.longitude = 180 * Unit /\ call.q.timezone = 14

\* C7: validation is the first step of getSunset and getSunrise; for an
\* out-of-range query no other stage runs, and nothing but the failure values
\* reaches the return value or an output parameter.
C7_ValidationFirst ==
  SunCallDone =>
    /\ res.stages[1] = "validateInputs"
    /\ ~InRange(call.q) =>
         /\ res.stages = <<"validateInputs">>
         /\ res.ret = FailureValue
         /\ res.out_solarNoon \in {0 - Unit, Unwritten}
         /\ res.out_delta \in {0 - 999 * Unit, Unwritten}

\* getSunset has stopped at validation on latitude 91
C7_Witness ==
  /\ pc = "done" /\ call.op = "getSunset" /\ call.q.latitude = 91 * Unit
  /\ res.stages = <<"validateInputs">> /\ res.ret = 24 * Unit

\* what the same call gives at altitude 0
AtSeaLevel ==
  IF call.op = "getSunset" THEN getSunset([call.q EXCEPT !.altitude_meters = 0])
  ELSE getSunrise([call.q EXCEPT !.altitude_meters = 0])

\* C8, as stated: a query whose altitude is negative is rejected with the
\* failure value instead of being computed.
C8_NegativeAltitudeRejected ==
  (SunCallDone /\ call.q.altitude_meters < 0) => res.ret = FailureValue

\* C8, amended: the altitude is not validated; a query within the six ranges
\* whose altitude is negative is computed, and gives what altitude 0 gives.
C8_NegativeAltitudeAsZero ==
  (SunCallDone /\ InRange(call.q) /\ call.q.altitude_meters < 0) =>
    /\ res.ret = AtSeaLevel.ret
    /\ IsClockTime(res.ret)
    /\ Len(res.stages) > 1

\* getSunset has computed a sunset for an altitude of -100 m
C8_Witness ==
  /\ pc = "done" /\ call.op = "getSunset" /\ InRange(call.q)
  /\ call.q.altitude_meters = 0 - 100 * Unit /\ call.q.latitude = 304276
  /\ IsClockTime(res.ret) /\ Len(res.stages) > 1

CatalogDone ==
  pc = "done" /\ call.op \in {"printTwilightTable", "printMorningTable",
                               "twilight main"}

\* the entry's angle is negative only above the horizon and positive only
\* below it, and its zenith is that of this signed angle (for sunrise and
\* sunset, angle 0, the standard zenith)
FollowsConvention(e) ==
  /\ e.sunAngle < 0 => e.zenith < 90 * Unit
  /\ e.sunAngle > 0 => e.zenith > 90 * Unit
  /\ \/ e.zenith = sunAngleToZenith(e.sunAngle)
     \/ e.sunAngle = 0 /\ e.zenith = 90 * Unit - kStandardSunsetElevation

\* C10: in every event catalog each entry's sunAngle follows the convention
\* negative = above the horizon, positive = below, and the entry's zenith is
\* the one derived from that same signed angle.
C10_CatalogConvention ==
  CatalogDone =>
    \A i \in 1..Len(res.events) :
      ~res.events[i].isNoon => FollowsConvention(res.events[i])

\* the front end's first entry: angle -18 with the zenith of +18
C10_Witness ==
  /\ pc = "done" /\ call.op = "twilight main"
  /\ res.events[1].sunAngle = 0 - 18 * Unit
  /\ res.events[1].zenith = 108 * Unit

\* a planner has printed its summary and its table
PlannerDone == pc = "done" /\ call.op \in {"sunset planner", "sunrise planner"}

\* the core query of the planner failed validation
CoreInvalid == res.core.stages = <<"validateInputs">>

\* a printed field that shows no time
IsSentinel(shown) == shown.text \in {"--:--", "N/A"}

\* the civil twilight end and the leave-by time as the summary prints them
CivilTwilightShown ==
  IF call.op = "sunset planner" THEN res.summary.civilTwilightStr
  ELSE res.summary.civilTwilightHHMM

LeaveByShown ==
  IF call.op = "sunset planner" THEN res.summary.leaveTimeStr
  ELSE res.summary.leaveHHMM

\* the summary line that is printed shows the civil twilight end
CivilTwilightPrinted ==
  call.op = "sunset planner" \/ res.summary.message = "YOU SHOULD HAVE LEFT"

\* C11: whenever the core query result is invalid or an event does not
\* occur, a planner and its table display a sentinel ("--:--", "N/A") for it
\* and never print a clock time or leave-by time computed from it.
C11_FrontEndSentinels ==
  PlannerDone =>
    /\ (CoreInvalid \/ res.civilTwilightHA_deg < 0) =>
         /\ CivilTwilightPrinted => IsSentinel(CivilTwilightShown)
         /\ res.summary.message = "Leave by" => IsSentinel(LeaveByShown)
    /\ CoreInvalid =>
         \A i \in DOMAIN res.lines :
           IsSentinel(res.lines[i].time) /\ IsSentinel(res.lines[i].dept)

\* the sunset planner, run in the year 2101, names 00:00 as the civil
\* twilight end to get home by
C11_Witness ==
  /\ pc = "done" /\ call.op = "sunset planner"
  /\ call.q.year = 2101 /\ call.q.latitude = 304276
  /\ res.core.solarNoon = 0 - Unit
  /\ res.summary.message = "YOU SHOULD HAVE LEFT"
  /\ res.summary.civilTwilightStr = Shown("HH:MM", 0, 0)

\* the query of the call, asked from altitude a
AtAltitude(a) == [call.q EXCEPT !.altitude_meters = a]

\* the same call made from altitude a returns this
ReturnAt(a) ==
  IF call.op = "getSunset" THEN getSunset(AtAltitude(a)).ret
  ELSE getSunrise(AtAltitude(a)).ret

\* hours between solar noon and the event, counted on the clock face
FromNoon(op, ret, solarNoon) ==
  IF op = "getSunset" THEN (ret - solarNoon) % (24 * Unit)
  ELSE (solarNoon - ret) % (24 * Unit)

SunriseAtSeaLevel ==
  /\ pc = "done" /\ call.op = "getSunrise" /\ InRange(call.q)
  /\ call.q.altitude_meters <= 0 /\ call.wantNoon

\* what getSunset returns for the query of the call
SunsetOfCall == getSunset(call.q).ret

RepeatsLast ==
  /\ pc = "done" /\ last.call.op = call.op
  /\ last.call.q = call.q

C15_SolarNoonInDay ==
  (SunCallDone /\ InRange(call.q) /\ call.wantNoon) =>
    IsClockTime(res.out_solarNoon)

\* a solar noon on midnight itself, its double a hair before it: getSunset
\* has stored 24.0
C15_Witness ==
  /\ pc = "done" /\ call.op = "getSunset" /\ InRange(call.q)
  /\ call.wantNoon /\ call.q.timezone = 0 - 12
  /\ res.out_solarNoon = 24 * Unit
  /\ IsClockTime(res.ret)

\* meanLongitude has returned
MeanLongitudeDone == pc = "done" /\ call.op = "meanLongitude"

\* C16: for every Julian century t and every variant (NOAA, USNO, LASKAR)
\* meanLongitude returns L with 0 <= L < 360 degrees.
C16_MeanLongitudeRange ==
  MeanLongitudeDone => (res.ret >= 0 /\ res.ret < 360 * Unit)

\* L0 comes to exactly 360 before the loops, and is returned as it is
C16_Witness ==
  /\ MeanLongitudeDone /\ call.algo = "NOAA"
  /\ L0(call.t, call.algo) + call.within = 360 * Unit
  /\ res.ret = 360 * Unit

\* The Gregorian date of a Julian Day Number (Richards' algorithm), from the
\* intermediate values on
calendarDateOf(e, h) ==
  [year |-> (e \div 1461) - 4716
            + ((14 - ((((h \div 153) + 2) % 12) + 1)) \div 12),
   month |-> (((h \div 153) + 2) % 12) + 1,
   day |-> ((h % 153) \div 5) + 1]

calendarDateFrom(f) ==
  calendarDateOf(4 * f + 3, 5 * (((4 * f + 3) % 1461) \div 4) + 2)

calendarDate(J) ==
  calendarDateFrom(J + 1401 + ((((4 * J + 274277) \div 146097) * 3) \div 4)
                   - 38)

\* getJulianDate has returned
JulianDateDone == pc = "done" /\ call.op = "getJulianDate"

\* C17: for every real Gregorian date from 1900-01-01 to 2100-12-31
\* getJulianDate returns the Julian Day Number of the date: the inverse
\* calendar conversion maps the result back to the same year, month and day.
C17_JulianDayNumber ==
  (JulianDateDone /\ IsRealDate(call.year, call.month, call.day)) =>
    calendarDate(res.ret)
      = [year |-> call.year, month |-> call.month, day |-> call.day]

\* the leap day of 2024, day 2460370
C17_Witness ==
  /\ JulianDateDone
  /\ call.year = 2024 /\ call.month = 2 /\ call.day = 29
  /\ res.ret = 2460370
  /\ calendarDate(res.ret).day = 29

\* the date of the call is not in the calendar
DateNotInCalendar ==
  ~IsRealDate(call.q.year, call.q.month, call.q.day)

\* the query of the call, asked for the calendar date that has the same day
\* count
OnCalendarDate(d) ==
  [call.q EXCEPT !.year = d.year, !.month = d.month, !.day = d.day]

RealDateQuery ==
  OnCalendarDate(calendarDate(getJulianDate(call.q.year, call.q.month,
                                            call.q.day)))

\* C18: a date whose day is within 1..31 but is not in its month (February
\* 30) passes validation and is processed as a normal query: getSunset and
\* getSunrise run past validation and return a time, not the failure value
\* of invalid input; it is the time of the real date with the same day count.
C18_DayNotInMonthAccepted ==
  (SunCallDone /\ InRange(call.q) /\ DateNotInCalendar) =>
    /\ res.stages # <<"validateInputs">>
    /\ IsClockTime(res.ret)
    /\ res.ret = IF call.op = "getSunset" THEN getSunset(RealDateQuery).ret
                 ELSE getSunrise(RealDateQuery).ret

\* getSunrise has returned a time for February 30, 2026
C18_Witness ==
  /\ pc = "done" /\ call.op = "getSunrise"
  /\ call.q.year = 2026 /\ call.q.month = 2 /\ call.q.day = 30
  /\ RealDateQuery.month = 3 /\ RealDateQuery.day = 2
  /\ IsClockTime(res.ret)

\* a getSunset or getSunrise call on validated input has stored a declination
\* through out_delta (-999.0 is what a failed call stores)
DeclinationStored ==
  /\ SunCallDone /\ InRange(call.q) /\ call.wantDelta
  /\ res.out_delta # 0 - 999 * Unit

PolarSummer(latitude, delta) == latitude = 70 * Unit /\ delta >= 20 * Unit

\* the twilight table has been printed for latitude 70 around the solstice
PolarSummerTable ==
  /\ pc = "done" /\ call.op = "printTwilightTable"
  /\ PolarSummer(call.latitude, call.delta)

\* calcHourAngle has returned for the civil twilight zenith at latitude 70
\* around the solstice
PolarSummerCivilTwilight ==
  /\ pc = "done" /\ call.op = "calcHourAngle"
  /\ call.h0 = sunAngleToZenith(6 * Unit)
  /\ PolarSummer(call.phi, call.delta)

HMSDone == pc = "done" /\ call.op = "decimalHoursToHMS"

\* C21: for every value that getSunset or getSunrise can return,
\* decimalHoursToHMS stores an hour in 0..23, a minute in 0..59 and a second
\* in 0..59.
C21_HMSInRange ==
  (HMSDone /\ call.of \in {"getSunset", "getSunrise"}) =>
    /\ res.outHours \in 0..23
    /\ res.outMinutes \in 0..59
    /\ res.outSeconds \in 0..59

\* the 24.0 that getSunset returns for a year it does not accept went through
\* decimalHoursToHMS, which stored hour 24
C21_Witness ==
  /\ HMSDone /\ call.of = "getSunset" /\ call.q.year = 1899
  /\ call.hours = 24 * Unit /\ res.outHours = 24

FormatSignedDone == pc = "done" /\ call.op = "formatSignedHHMM"

\* C23: formatSignedHHMM prefixes "-" when the time difference is negative
\* and "+" when it is positive, followed by the zero-padded HH:MM magnitude
\* of the difference.
C23_SignOfDifference ==
  FormatSignedDone =>
    /\ call.timeDiff < 0 => res.ret.text = "-HH:MM"
    /\ call.timeDiff > 0 => res.ret.text = "+HH:MM"
    /\ res.ret.min \in 0..59
    /\ res.ret.hr * 60 + res.ret.min = (Abs(call.timeDiff) * 60) \div Unit

\* formatSignedHHMM has returned for a difference of minus an hour and a half,
\* with "+" in front of 01:30
C23_Witness ==
  /\ FormatSignedDone /\ call.timeDiff = 0 - 15000
  /\ res.ret = Shown("+HH:MM", 1, 30)

\* a table renderer or the twilight front end has returned
TableDone ==
  /\ pc = "done"
  /\ call.op \in {"printTwilightTable", "printTwilightTable (stand-alone)",
                  "printMorningTable", "twilight main"}

\* C24: every event time a table renderer or front end computes for an
\* occurring event (solarNoon - hourAngleHours for morning rows, solarNoon +
\* hourAngleHours for evening rows) is normalized into [0,24) before it is
\* formatted or used in departure arithmetic.
C24_EventTimesNormalized ==
  TableDone =>
    \A i \in DOMAIN res.rows :
      res.rows[i].occurs => IsClockTime(res.rows[i].eventTime)

\* the twilight table for a solar noon of 23.9: the sunset row occurs and its
\* event time is past 24
C24_Witness ==
  /\ pc = "done" /\ call.op = "printTwilightTable"
  /\ call.solarNoon = 239000
  /\ \E i \in DOMAIN res.rows :
       /\ res.rows[i].event.label = "Sunset"
       /\ res.rows[i].occurs
       /\ res.rows[i].eventTime >= 24 * Unit

\* nutationInLongitude has returned
NutationDone == pc = "done" /\ call.op = "nutationInLongitude"

\* C25: in the sunrise/sunset pipeline every angle is converted from degrees
\* to radians exactly once before it reaches a trigonometric function: the
\* ascending-node longitude, which longitudeAscendingNode returns in radians,
\* is used as radians by nutationInLongitude without a further conversion,
\* and the mean longitude passed to nutationInLongitude is in radians when
\* its sine is taken.
C25_ConvertedOnce ==
  NutationDone =>
    /\ res.sinOfOmega = call.Omega
    /\ res.sinOfTwiceX1 = 2 * FMul(call.X1, kDeg2Rad)

\* nutationInLongitude has returned for the 2026 solstice: the sine was taken
\* of a number that is neither the Omega passed nor zero, and of twice the
\* mean longitude in degrees
C25_Witness ==
  /\ NutationDone /\ call.t = 264682 /\ call.form = "REDA_ANDREAS_SPA"
  /\ call.Omega # 0 /\ res.sinOfOmega # call.Omega
  /\ res.sinOfTwiceX1 = 200 * call.X1

\* a planner has returned after a call of the calculator that passed validation
PlannerShown(op) ==
  /\ pc = "done" /\ call.op = op
  /\ res.core.stages # <<"validateInputs">>

\* the line of a printed table with this label shows the time of this value
\* of the calculator
RowShows(lines, label, ret) ==
  \A i \in DOMAIN lines :
    lines[i].label = label => lines[i].time = formatHHMM(ret)

\* C26: for the same date, location and altitude, the time shown in the
\* "Sunset" row of the twilight table (and in the "Sunrise" row of the
\* morning table), computed from the solarNoon and declination that
\* getSunset/getSunrise handed out, equals the time getSunset (respectively
\* getSunrise) itself returned.
C26_TableRowIsReturnedTime ==
  /\ PlannerShown("sunset planner") => RowShows(res.lines, "Sunset", res.core.ret)
  /\ PlannerShown("sunrise planner") => RowShows(res.lines, "Sunrise", res.core.ret)

\* the sunrise planner on 2026-12-21 at the default location and altitude:
\* getSunrise returned a time in minute 06:52, and the Sunrise row of the
\* morning table shows 06:53
C26_Witness ==
  /\ PlannerShown("sunrise planner")
  /\ call.q.month = 12 /\ call.q.altitude_meters = 18224
  /\ formatHHMM(res.core.ret) = Shown("HH:MM", 6, 52)
  /\ \E i \in DOMAIN res.lines :
       /\ res.lines[i].label = "Sunrise"
       /\ res.lines[i].time = Shown("HH:MM", 6, 53)

\* getSunrise has returned for input in the documented ranges, both pointers
\* supplied
SunriseStored ==
  /\ pc = "done" /\ call.op = "getSunrise" /\ InRange(call.q)
  /\ call.wantNoon /\ call.wantDelta

\* C27: for identical valid inputs, getSunrise and getSunset report the same
\* solar noon through out_solarNoon and the same declination through
\* out_delta.
C27_SameNoonAndDelta ==
  SunriseStored =>
    /\ res.out_solarNoon = getSunset(call.q).solarNoon
    /\ res.out_delta = getSunset(call.q).delta

\* getSunrise has stored -1.0 and -999.0 for accepted input for which
\* getSunset stores a solar noon of 24.0 and a declination
C27_Witness ==
  /\ SunriseStored
  /\ res.out_solarNoon = 0 - Unit /\ res.out_delta = 0 - 999 * Unit
  /\ getSunset(call.q).solarNoon = 24 * Unit
  /\ Abs(getSunset(call.q).delta) <= 90 * Unit

\* in each section of the rows, morning or evening, a golden hour that starts
\* and ends starts no later than it ends
GoldenHourOrdered(rows) ==
  \A i, j \in DOMAIN rows :
    ( /\ rows[i].event.label = "Golden hour starts"
      /\ rows[j].event.label = "Golden hour ends"
      /\ rows[i].event.isMorning = rows[j].event.isMorning
      /\ rows[i].occurs /\ rows[j].occurs )
    => rows[i].eventTime <= rows[j].eventTime

\* C28: in every table section (morning arrival, evening departure, twilight
\* table, twilight front end), whenever the "Golden hour starts" row and the
\* "Golden hour ends" row both occur, the time shown for "Golden hour starts"
\* is not later than the time shown for "Golden hour ends".
C28_GoldenHourOrder ==
  TableDone => GoldenHourOrdered(res.rows)

\* printMorningTable has returned for a noon of 12.1313 at latitude 30.4276:
\* in its evening section both golden hour rows occur, and "Golden hour
\* starts" is the later of the two
C28_Witness ==
  /\ pc = "done" /\ call.op = "printMorningTable"
  /\ call.solarNoon = 121313 /\ call.latitude = 304276
  /\ res.rows[7].event.label = "Golden hour ends"
  /\ res.rows[9].event.label = "Golden hour starts"
  /\ res.rows[7].occurs /\ res.rows[9].occurs
  /\ res.rows[9].eventTime > res.rows[7].eventTime

\* a planner has printed its YOU SHOULD HAVE LEFT message
ShouldHaveLeft(op) ==
  /\ pc = "done" /\ call.op = op
  /\ res.summary.message = "YOU SHOULD HAVE LEFT"

\* the deadline has passed, and the hours and minutes printed are the whole
\* minutes gone by since
ElapsedSince(deadline, now, hours, mins) ==
  /\ now - deadline >= 0
  /\ hours >= 0 /\ mins \in 0..59
  /\ hours * 60 + mins = ((now - deadline) * 60) \div Unit

\* C29: each commute planner prints its "YOU SHOULD HAVE LEFT <duration> AGO"
\* message only when the departure deadline named in that same message has
\* already passed, and <duration> is the non-negative time elapsed since that
\* deadline.  The sunset planner names the departure that gets home by the
\* end of civil twilight; the sunrise planner names the departure from work
\* that gets back home by the end of civil twilight.
C29_ShouldHaveLeft ==
  /\ ShouldHaveLeft("sunset planner") =>
       ElapsedSince(res.summary.leaveTime, call.currentTime,
                    res.summary.agoHours, res.summary.agoMins)
  /\ ShouldHaveLeft("sunrise planner") =>
       ElapsedSince(res.summary.homeCommuteLeaveTime, call.currentTime,
                    res.summary.agoHours, res.summary.agoMins)

\* the sunrise planner at 06:00 on a valid date: the time to leave for
\* sunrise has passed, the message is printed, and the departure for home it
\* names is still hours ahead
C29_Witness ==
  /\ ShouldHaveLeft("sunrise planner") /\ call.currentTime = 6 * Unit
  /\ res.core.stages # <<"validateInputs">>
  /\ res.summary.timeToLeave <= 0
  /\ res.summary.timeToLeaveForHome > Unit

\* the three counters are nested, and so are the three verdicts
CountersNested ==
  /\ cmp.counter.diff_significant <= cmp.counter.diff_non_trivial
  /\ cmp.counter.diff_non_trivial <= cmp.counter.diff_non_zero
  /\ cmp.flag.files_are_same => cmp.flag.files_have_same_values
  /\ cmp.flag.files_have_same_values => cmp.flag.files_are_close_enough

\* C30: after any sequence of DifferenceProcessor::process_difference calls
\* starting from zeroed counters, every difference counted as significant is
\* also counted as non-trivial and every non-trivial difference is also
\* counted as non-zero (diff_significant <= diff_non_trivial <=
\* diff_non_zero), so the summary verdicts identical / same values within
\* precision / close enough are nested.
C30_CountersNestedAlways ==
  cmp.made => CountersNested

\* C30 for a significant threshold that is not negative
C30_CountersNested ==
  (cmp.made /\ cmp.thresh.significant >= 0) => CountersNested

\* three differences processed with a significant threshold of 0.05: one of
\* them non-zero only, one non-trivial only, one significant
C30_Witness ==
  /\ cmp.made /\ cmp.thresh.significant = 500
  /\ cmp.processed = 3
  /\ cmp.counter.diff_non_zero = 3
  /\ cmp.counter.diff_non_trivial = 2
  /\ cmp.counter.diff_significant = 1
====
